---- MODULE Spec2Model ----
(***************************************************************************)
(* State-machine model of the iterative gather-evaluate engine of          *)
(* adk_deep_research: DeepResearchOrchestratorAgent (main_agent.py) drives *)
(* GatherLoopAgent, GatherIterationAgent, PerformSearchAndSummarizeAgent   *)
(* and EvaluateResearchAgent (gather_agent.py); the web search tool is     *)
(* _search_on_web_implementation (tools.py).  The variables named like     *)
(* keys of context.state hold the value of that key; a key that is read    *)
(* with .get(key, default) before it is written holds the default.         *)
(***************************************************************************)
EXTENDS Integers, Sequences, FiniteSets, Bags, TLC

\* ------------------------------------------------------------------ bounds
\* Largest configured budget the model explores (budgets are 1..MaxBudget).
MaxBudget == 2
\* Longest query list a planner or parser answer holds before the cap.
MaxPlan == 3
\* Pages the search provider returns over one whole run, all queries
\* together (one query may receive all of them); page ids count up from 1
\* in the order the provider returns them.
MaxPages == 3
\* Pages of a run in which the search tool, the cover and report steps or
\* the event sink end in every way.
FewPages == 1

\* ------------------------------------------------------ program constants
\* RESEARCH_CONFIG["maxQueries"]
MaxQueries == 2

\* ------------------------------------------------------------ value sets
Queries == {"X", "Y", "Z"}
Budgets == 1..MaxBudget
\* What one candidate's content fetch (scrape_task) can end in; "no_link" is
\* a candidate without url, for which no fetch is started.
FetchOutcomes == {"ok", "unsuccessful", "exception", "empty_content", "no_link"}
\* What one call of the web search tool can end in: a result list, the
\* provider's failure (caught in the tool), or an exception raised through
\* invoke_tool_async.
ToolOutcomes == {"results", "provider_error", "raise"}
\* What one summarizer call can end in: a summary, the adapter's error
\* text, an event without content, or an exception raised through
\* invoke_agent_async.
SummaryOutcomes == {"summary", "error_text", "no_content", "raise"}
\* What a call of the planner or of a parsing agent can end in.
ParserOutcomes == {"answer", "raise"}
\* What the two Redis calls of one add_event can end in: both succeed, the
\* stream append raises, or the append succeeds and the expiry call raises.
WriteOutcomes == {"ok", "append_error", "expire_error"}
\* Budgets of a corrupted session state.
FatalBudgets == {-1, 0}
\* The values of RESEARCH_CONFIG["maxQueries"] a deployment can configure,
\* up to the one of config.py.
QueryCaps == 0..MaxQueries
\* What the judgment call can end in: reasoning text, the adapter's error
\* text, an event without content, or an exception raised through
\* invoke_agent_async.
JudgeOutcomes == {"text", "error_text", "no_content", "raise"}

\* The topic the orchestrator is constructed with (initial_topic).
InitialTopic == "T"

SeqsUpTo(S, n) == UNION {[1..k -> S] : k \in 0..n}
Range(s) == {s[i] : i \in 1..Len(s)}
Min(a, b) == IF a < b THEN a ELSE b
Max(a, b) == IF a > b THEN a ELSE b
\* The orders in which k concurrent tasks can complete: order[i] is the
\* task that completes i-th.
CompletionOrders(k) ==
    {f \in [1..k -> 1..k] : \A i, j \in 1..k : f[i] = f[j] => i = j}
\* The order in which k tasks were started.
StartOrder(k) == [c \in 1..k |-> c]
IsPrefix(s, t) == Len(s) <= Len(t) /\ SubSeq(t, 1, Len(s)) = s
\* The answers of a parsing agent (ResearchPlan output schema): content
\* with a queries attribute, or content without one.
ParsedOutputs(longest) ==
    {[has_queries |-> FALSE, queries |-> <<>>]}
    \cup {[has_queries |-> TRUE, queries |-> s] : s \in SeqsUpTo(Queries, longest)}

\* What the cover step (main_agent.py 196-236) can end in when none of its
\* calls raises: the prompt agent gives no prompt, the image tool or the
\* upload tool reports a failure, or the cover is uploaded.
CoverOutcomes == {"no_prompt", "image_failed", "upload_failed", "uploaded"}

\* The ways the cover step is left by an exception: the call of the prompt
\* agent raises, or the call of the image tool does.
CoverRaises == {"prompt_raise", "tool_raise"}

\* The collaborators of a run.  A run is explored under one of five
\* environments, each of which lets some collaborators answer in every way
\* and holds the others to their plain answer:
\*   llm     the planner, the judge and the parsers end in every way, and
\*           no search returns a candidate;
\*   web     the provider returns up to MaxPages pages, the tool, the
\*           fetches and the summarizer end in every way, query lists hold
\*           one query at most;
\*   search  query lists hold up to two queries and the tool ends in every
\*           way for each of them;
\*   tail    the cover and report steps end in every way;
\*   fetch   the provider returns two pages, to one query or to two, and
\*           the concurrent fetches of a query succeed or fail and complete
\*           in every order (in the other environments they complete in
\*           the order in which they were started).
\* In all five the event sink is reachable and takes every write.
Environments ==
    {[name |-> "llm", pages |-> 0, plan |-> MaxPlan,
      tools |-> {"results"}, fetches |-> {"ok"},
      sums |-> {"summary"}, parsers |-> ParserOutcomes,
      judges |-> JudgeOutcomes, covers |-> {"uploaded"}, reports |-> {FALSE},
      connects |-> {TRUE}, writes |-> {"ok"}, interleaved |-> FALSE],
     [name |-> "web", pages |-> MaxPages, plan |-> 1,
      tools |-> ToolOutcomes, fetches |-> FetchOutcomes,
      sums |-> SummaryOutcomes, parsers |-> {"answer"},
      judges |-> {"text", "raise"}, covers |-> {"uploaded"},
      reports |-> {FALSE}, connects |-> {TRUE}, writes |-> {"ok"},
      interleaved |-> FALSE],
     [name |-> "search", pages |-> FewPages, plan |-> 2,
      tools |-> ToolOutcomes, fetches |-> {"ok"},
      sums |-> {"summary"}, parsers |-> {"answer"},
      judges |-> {"text"}, covers |-> {"uploaded"}, reports |-> {FALSE},
      connects |-> {TRUE}, writes |-> {"ok"}, interleaved |-> FALSE],
     [name |-> "tail", pages |-> FewPages, plan |-> 1,
      tools |-> {"results"}, fetches |-> {"ok"},
      sums |-> {"summary"}, parsers |-> {"answer"},
      judges |-> {"text"}, covers |-> CoverOutcomes, reports |-> BOOLEAN,
      connects |-> {TRUE}, writes |-> {"ok"}, interleaved |-> FALSE],
     [name |-> "fetch", pages |-> 2, plan |-> 2,
      tools |-> {"results"}, fetches |-> {"ok", "exception"},
      sums |-> {"summary"}, parsers |-> {"answer"},
      judges |-> {"text"}, covers |-> {"uploaded"}, reports |-> {FALSE},
      connects |-> {TRUE}, writes |-> {"ok"}, interleaved |-> TRUE]}

\* The environment in which every call of a step of the run can raise:
\* the planner and the parsers, the web search tool, the summarizer, the
\* judgment agent, and the calls of the cover step; the report agent
\* returns a long report or a short one.
StepEnvironments ==
    {[name |-> "steps", pages |-> FewPages, plan |-> 2,
      tools |-> {"results", "raise"}, fetches |-> {"ok"},
      sums |-> {"summary", "raise"}, parsers |-> ParserOutcomes,
      judges |-> {"text", "raise"},
      covers |-> {"uploaded"} \cup CoverRaises, reports |-> BOOLEAN,
      connects |-> {TRUE}, writes |-> {"ok"}, interleaved |-> FALSE]}

\* The environment in which the event sink fails: Redis may be unreachable
\* whenever an AdkEventService is constructed, and each write of add_event
\* ends in every way.
SinkEnvironments ==
    {[name |-> "sink", pages |-> FewPages, plan |-> 1,
      tools |-> {"results"}, fetches |-> {"ok"},
      sums |-> {"summary"}, parsers |-> {"answer"},
      judges |-> {"text"}, covers |-> {"uploaded"}, reports |-> {FALSE},
      connects |-> BOOLEAN, writes |-> WriteOutcomes,
      interleaved |-> FALSE]}

VARIABLES
    pc,                        \* position of the single control thread
    research_topic,            \* context.state["research_topic"]
    user_content,              \* context.state["user_content"]: the agent
                               \* the prompt input was last written for
    budget,                    \* context.state["budget"]
    iteration,                 \* context.state["iteration"]
    max_budget_iterations,     \* context.state["max_budget_iterations"]
    initial_queries,           \* context.state["initial_queries"]
    current_iteration_queries, \* context.state["current_iteration_queries"]
    additional_queries,        \* context.state["additional_queries"]
    needs_more_research,       \* context.state["needs_more_research"]
    current_eval_text,         \* context.state["current_eval_text"]
    all_queries,               \* context.state["all_queries"], as a bag:
                               \* the list up to the order of its entries
    search_results,            \* context.state["search_results"]
    qi,                        \* index of the next query of the batch
    all_new_results_for_iteration, \* local of the search stage
    orch_events,               \* add_event calls of the orchestrator, in order
    round_events,              \* add_event calls of the gather agents in the
                               \* current round, in order
    pages_served,              \* candidates the provider has returned so far
    config_budget,             \* RESEARCH_CONFIG["budget"] of this run
    max_queries,               \* RESEARCH_CONFIG["maxQueries"] of this run
    caller,                    \* who runs the gather loop: the orchestrator,
                               \* or a caller that prepared the state itself
    parser_queries,            \* local of the step that read a parser's
                               \* answer: the list before the cap
    write_failed,              \* history: a Redis call of add_event raised
    fault,                     \* history: the call that raised, if one did
    env,                       \* the collaborators of this run
    rounds_started,            \* history: rounds of the iteration agent
    cur,                       \* history: the current (last started) round
    loop_exit,                 \* history: branch _loop_condition_fn stopped on
    gather_event,              \* the Event GatherLoopAgent returned
    result,                    \* status of the orchestrator's final Event
    entry,                     \* what started the run
    chatId,                    \* chatId of the initiator's context ("" when
                               \* the state and the user content have none)
    session,                   \* context.session.id
    session_id,                \* session_id of the orchestrator object
    db,                        \* what the database answers the initiator
    db_updates,                \* history: the updates made to the database
    initiator_event,           \* type of the Event the initiator returned
    orch_service,              \* session_id of the event service the
                               \* orchestrator holds
    gather_service             \* session_id of the event service the gather
                               \* agent that ran last holds

vars == <<pc, research_topic, user_content, budget, iteration, max_budget_iterations, initial_queries,
          current_iteration_queries, additional_queries, needs_more_research,
          current_eval_text, all_queries, search_results, qi,
          all_new_results_for_iteration, orch_events, round_events,
          pages_served, config_budget, max_queries, caller, parser_queries,
          write_failed, fault, env, rounds_started, cur, loop_exit,
          gather_event, result, entry, chatId, session, session_id, db,
          db_updates, initiator_event, orch_service, gather_service>>

\* What an action that is no part of the run's start leaves alone.
entry_vars == <<entry, chatId, session, session_id, db, initiator_event>>

\* ---------------------------------------------------------------- events
\* One StreamEvent as add_event receives it: its type, its iteration field
\* (-1 when the event has none), and the payload the model keeps.
Ev(type, it, query, n, qs) ==
    [type |-> type, iteration |-> it, query |-> query, n |-> n, queries |-> qs]

NoGatherEvent == [status |-> "none", final_results |-> <<>>]

\* History record of a round, made when the round is prepared: its batch,
\* the iteration key it runs with, the queries and the evidence of the
\* state before it, the queries of all batches up to this one; then the
\* pages fetched with content, the pages whose fetch failed, the places in
\* the batch of the queries whose provider call failed, the pages whose
\* summarization failed, the number of records each query that is done
\* added to the stage's list, whether the fetches of a query completed in
\* another order than they were started in, whether the search stage has
\* written the state, how the judgment call ended and whether the
\* evaluation stage has finished; and the calls of the round in the order
\* in which they were made: the queries the web search tool was called
\* with, the largest number of fetches started for one page, the pages the
\* summarizer was invoked for, and the number of invocations of the judgment agent and of
\* the parsing agent.
NewRound(batch, it) ==
    [batch |-> batch, iteration |-> it, seen |-> BagToSet(all_queries),
     issued |-> cur.issued \cup Range(batch),
     evidence_before |-> search_results, fetched_ok |-> {},
     fetch_failed |-> {}, provider_errors |-> {}, sum_failed |-> {},
     added |-> <<>>, out_of_order |-> FALSE,
     searched |-> FALSE, judge |-> "none", evaluated |-> FALSE,
     tool_calls |-> <<>>, fetch_most |-> 0, summarizer_calls |-> <<>>,
     judge_calls |-> 0, parser_calls |-> 0]

NoRound ==
    [batch |-> <<>>, iteration |-> 0, seen |-> {}, issued |-> {},
     evidence_before |-> <<>>, fetched_ok |-> {}, fetch_failed |-> {},
     provider_errors |-> {}, sum_failed |-> {}, added |-> <<>>,
     out_of_order |-> FALSE, searched |-> FALSE,
     judge |-> "none", evaluated |-> FALSE,
     tool_calls |-> <<>>, fetch_most |-> 0, summarizer_calls |-> <<>>,
     judge_calls |-> 0, parser_calls |-> 0]

\* What no agent has written yet when a run starts.
Unwritten ==
    /\ user_content = "none"
    /\ iteration = 0
    /\ max_budget_iterations = 0
    /\ current_iteration_queries = <<>>
    /\ additional_queries = <<>>
    /\ needs_more_research = FALSE
    /\ current_eval_text = ""
    /\ all_queries = EmptyBag
    /\ search_results = <<>>
    /\ qi = 1
    /\ all_new_results_for_iteration = <<>>
    /\ orch_events = <<>>
    /\ round_events = <<>>
    /\ pages_served = 0
    /\ parser_queries = <<>>
    /\ write_failed = FALSE
    /\ fault = "none"
    /\ rounds_started = 0
    /\ cur = NoRound
    /\ loop_exit = "none"
    /\ gather_event = NoGatherEvent
    /\ result = "none"
    /\ db_updates = <<>>
    /\ initiator_event = "none"
    /\ orch_service = "none"
    /\ gather_service = "none"

\* The session the runs are invoked in, and a chat of another id.
Session == "s1"
OtherChat == "c1"

\* What the database answers a run that does not go through the initiator.
NoDb ==
    [research_data |-> "none", limit_ok |-> TRUE, message |-> "",
     answered |-> FALSE]

\* The state in which DeepResearchOrchestratorAgent._run_async_impl is
\* entered, for the environments, budgets and query caps given, when the
\* run is started by run_adk_deep_research (main_agent.py 335-383): the
\* orchestrator is constructed with the id the session is made with.
Start(envs, budgets, caps) ==
    /\ pc = "start"
    /\ caller = "orchestrator"
    /\ entry = "run_adk_deep_research"
    /\ chatId = ""
    /\ session = Session
    /\ session_id = session
    /\ db = NoDb
    /\ config_budget \in budgets
    /\ max_queries \in caps
    /\ env \in envs
    /\ research_topic = ""
    /\ budget = 0
    /\ initial_queries = <<>>
    /\ Unwritten

\* The state in which GatherLoopAgent is run by a caller that set up the
\* context itself (gather_agent.py 419-427): the budget and the seed
\* queries are keys of the state, the latter as the caller wrote them.
Direct(envs, budgets, caps) ==
    /\ pc = "gather"
    /\ caller = "direct"
    /\ entry = "direct"
    /\ chatId = ""
    /\ session = Session
    /\ session_id = "none"
    /\ db = NoDb
    /\ config_budget \in budgets
    /\ max_queries \in caps
    /\ env \in envs
    /\ research_topic = InitialTopic
    /\ budget = config_budget
    /\ initial_queries \in SeqsUpTo(Queries, env.plan)
    /\ Unwritten

Init == Start(Environments, Budgets, {MaxQueries})

\* ------------------------------------------------------------- initiator
\* What the database can answer the initiator: the research record is
\* found with its clerkUserId, found without one, or not found; the limit
\* check passes or not; the record's initial message is empty, blank or a
\* text, and its questions have an answer or none.
DbAnswers ==
    [research_data : {"found", "no_user", "missing"}, limit_ok : BOOLEAN,
     message : {"", " ", InitialTopic}, answered : BOOLEAN]

\* initiator_agent.py 140-149: the topic is the message and the numbered
\* question-answer pairs, empty parts left out, joined by blanks and
\* stripped; it is empty when there is no answered question and the
\* message is empty or blank.
ConstructedTopic(message, answered) ==
    IF ~answered /\ message \in {"", " "} THEN "" ELSE InitialTopic

\* InitiatorGuard with the limit check left out.
InitiatorGuard_unlimited(chat_id, answers) ==
    IF chat_id = "" THEN "chatId"
    ELSE IF answers.research_data # "found" THEN "research_data"
    ELSE IF ConstructedTopic(answers.message, answers.answered) = ""
    THEN "topic"
    ELSE "none"

\* initiator_agent.py 117, 124, 134, 151: the guard the initiator returns
\* its error Event on, "none" when it goes on to the orchestrator.
InitiatorGuard(chat_id, answers) ==
    IF chat_id = "" THEN "chatId"
    ELSE IF answers.research_data # "found" THEN "research_data"
    ELSE IF ~answers.limit_ok THEN "limit"
    ELSE IF ConstructedTopic(answers.message, answers.answered) = ""
    THEN "topic"
    ELSE "none"

\* ResearchInitiatorAgent._run_async_impl 113-183: chatId is read, the
\* record fetched, the limit checked and the topic constructed; a guard
\* that fails returns an error Event.  Otherwise the record is updated,
\* the orchestrator is constructed with the chatId as its session_id, and
\* it is run in a context that shares the invoking session.
Initiator_run ==
    /\ pc = "initiate"
    /\ IF InitiatorGuard(chatId, db) # "none"
       THEN /\ initiator_event' = "error"
            /\ pc' = "rejected"
            /\ UNCHANGED <<db_updates, session_id>>
       ELSE /\ db_updates' = Append(db_updates, "initiation")
            /\ session_id' = chatId
            /\ pc' = "start"
            /\ UNCHANGED initiator_event
    /\ UNCHANGED <<research_topic, user_content, budget, iteration,
                   max_budget_iterations, initial_queries,
                   current_iteration_queries, additional_queries,
                   needs_more_research, current_eval_text, all_queries,
                   search_results, qi, all_new_results_for_iteration,
                   orch_events, round_events, pages_served, config_budget,
                   max_queries, caller, parser_queries, write_failed, fault,
                   env, rounds_started, cur, loop_exit, gather_event, result,
                   entry, chatId, session, db, orch_service, gather_service>>

\* ResearchInitiatorAgent._run_async_impl 185-208: the orchestrator's run
\* has returned its Event, and the initiator returns an Event of the
\* default type with the orchestrator's status; when the run raised, the
\* initiator returns an error Event.
Initiator_return ==
    /\ entry = "ResearchInitiatorAgent"
    /\ pc \in {"done", "failed", "crashed"}
    /\ initiator_event' = IF pc = "crashed" THEN "error" ELSE "default"
    /\ pc' = "initiator_returned"
    /\ UNCHANGED <<research_topic, user_content, budget, iteration,
                   max_budget_iterations, initial_queries,
                   current_iteration_queries, additional_queries,
                   needs_more_research, current_eval_text, all_queries,
                   search_results, qi, all_new_results_for_iteration,
                   orch_events, round_events, pages_served, config_budget,
                   max_queries, caller, parser_queries, write_failed, fault,
                   env, rounds_started, cur, loop_exit, gather_event, result,
                   entry, chatId, session, session_id, db, db_updates,
                   orch_service, gather_service>>

\* event_service.py 70-72: the Redis stream key of a session.
GenerateKey(sid) == <<"research", sid, "stream">>

\* ------------------------------------------------------------ event sink
\* AdkEventService.__init__ 51-66: the service is constructed when Redis
\* answers the ping; when it does not, the constructor raises.
Constructed(reachable) == reachable

\* AddEvent without the except clause: a failed Redis call raises to the
\* caller of add_event.
AddEvent_uncaught(write) ==
    [written |-> write # "append_error", returns |-> write = "ok"]

\* AdkEventService.add_event 98-105: the event is in the stream unless the
\* append raised, and whatever the two Redis calls raise is caught, so the
\* call returns.
AddEvent(write) == [written |-> write # "append_error", returns |-> TRUE]

\* The ways n add_event calls in a row can end: whether a Redis call of
\* one of them failed, and whether one of them raised to its caller.
SinkEffects(n) ==
    {[failed |-> \E i \in 1..n : ws[i] # "ok",
      raised |-> \E i \in 1..n : ~AddEvent(ws[i]).returns] :
        ws \in [1..n -> env.writes]}

\* The control flow of a step that makes n add_event calls and goes on to
\* target; cause is the call that raised in the step, or the fault as it
\* was when the step goes on normally.
Step(n, target, cause) ==
    \E eff \in SinkEffects(n) :
        /\ write_failed' = (write_failed \/ eff.failed)
        /\ pc' = IF eff.raised THEN "raised" ELSE target
        /\ fault' = IF eff.raised THEN "add_event" ELSE cause

\* ------------------------------------------------- orchestrator, before
\* CapQueries with the slice left out.
CapQueries_uncapped(qs) == qs

\* The [:RESEARCH_CONFIG["maxQueries"]] slice of both query lists.
CapQueries(qs) == SubSeq(qs, 1, Min(Len(qs), max_queries))

\* The queries read off a parsing agent's answer: content.queries when the
\* content has the attribute, else the empty list.
QueriesOf(parsed) == IF parsed.has_queries THEN parsed.queries ELSE <<>>

\* main_agent.py 138-158: the orchestrator obtains its event service,
\* outside the try block, so a constructor that raises ends the run with
\* the exception; then the state is initialised and planning_started is
\* emitted.
Orch_init ==
    /\ UNCHANGED entry_vars
    /\ UNCHANGED gather_service
    /\ UNCHANGED user_content
    /\ pc = "start"
    /\ \E reachable \in env.connects :
         IF Constructed(reachable)
         THEN /\ orch_service' = session_id
              /\ db_updates' = Append(db_updates, "start")
              /\ research_topic' = InitialTopic
              /\ budget' = config_budget
              /\ iteration' = 0
              /\ all_queries' = EmptyBag
              /\ search_results' = <<>>
              /\ orch_events' = Append(orch_events,
                     Ev("planning_started", -1, "", 0, <<>>))
              /\ Step(1, "plan", fault)
         ELSE /\ pc' = "crashed"
              /\ fault' = "event_service"
              /\ UNCHANGED <<research_topic, budget, iteration, all_queries,
                             search_results, orch_events, write_failed,
                             orch_service, db_updates>>
    /\ UNCHANGED <<max_budget_iterations, initial_queries,
                   current_iteration_queries, additional_queries,
                   needs_more_research, current_eval_text, qi,
                   all_new_results_for_iteration, round_events, pages_served,
                   config_budget, max_queries, caller, parser_queries, env,
                   rounds_started, cur, loop_exit, gather_event, result>>

\* main_agent.py 160-185: planner, plan parser, plan summary; the parsed
\* queries are capped and stored as the seed set.  An exception of one of
\* the calls leaves the step.
Orch_plan ==
    /\ UNCHANGED entry_vars
    /\ UNCHANGED <<db_updates, orch_service, gather_service>>
    /\ UNCHANGED research_topic
    /\ UNCHANGED user_content
    /\ pc = "plan"
    /\ \E o \in env.parsers, parsed \in ParsedOutputs(env.plan) :
         IF o = "raise"
         THEN /\ Step(0, "raised", "planner")
              /\ UNCHANGED <<initial_queries, orch_events, parser_queries>>
         ELSE /\ Step(1, "gather", fault)
              /\ parser_queries' = QueriesOf(parsed)
              /\ initial_queries' = CapQueries(QueriesOf(parsed))
              /\ orch_events' = Append(orch_events,
                     Ev("planning_completed", 0, "", 0,
                        CapQueries(QueriesOf(parsed))))
    /\ UNCHANGED <<budget, iteration, max_budget_iterations,
                   current_iteration_queries, additional_queries,
                   needs_more_research, current_eval_text, all_queries,
                   search_results, qi, all_new_results_for_iteration,
                   round_events, pages_served, config_budget, max_queries, caller, env, rounds_started,
                   cur, loop_exit, gather_event, result>>

\* main_agent.py 189-191: with no seed query the gather phase is skipped;
\* the branch prints a line and does nothing else.
Orch_skip_gather ==
    /\ UNCHANGED entry_vars
    /\ UNCHANGED <<db_updates, orch_service, gather_service>>
    /\ UNCHANGED research_topic
    /\ UNCHANGED user_content
    /\ pc = "gather"
    /\ caller = "orchestrator"
    /\ initial_queries = <<>>
    /\ pc' = "cover"
    /\ parser_queries' = <<>>
    /\ UNCHANGED <<write_failed, fault>>
    /\ UNCHANGED <<budget, iteration, max_budget_iterations, initial_queries,
                   current_iteration_queries, additional_queries,
                   needs_more_research, current_eval_text, all_queries,
                   search_results, qi, all_new_results_for_iteration,
                   orch_events, round_events, pages_served, config_budget, max_queries, caller, env,
                   rounds_started, cur, loop_exit, gather_event, result>>

\* LoopEntry with the loop condition tested before the first round.
LoopEntry_condition_first == "loop_cond"

\* Where the loop driver (the LoopAgent base class) starts: with
\* _prepare_iteration_context and a round of the iteration agent; the loop
\* condition is tested after a round.
LoopEntry == "prepare"

\* main_agent.py 192-193 and GatherLoopAgent._run_async_impl 399-409: the
\* loop is entered; max_budget_iterations is read from the budget key,
\* setdefault leaves the iteration key as it is, and initial_queries is a
\* key of the state.
GatherLoop_start ==
    /\ UNCHANGED entry_vars
    /\ UNCHANGED <<db_updates, orch_service, gather_service>>
    /\ UNCHANGED research_topic
    /\ UNCHANGED user_content
    /\ pc = "gather"
    /\ caller = "orchestrator" => initial_queries # <<>>
    /\ max_budget_iterations' = budget
    /\ iteration' = iteration
    /\ pc' = LoopEntry
    /\ parser_queries' = <<>>
    /\ UNCHANGED <<write_failed, fault>>
    /\ UNCHANGED <<budget, initial_queries, current_iteration_queries,
                   additional_queries, needs_more_research,
                   current_eval_text, all_queries, search_results, qi,
                   all_new_results_for_iteration, orch_events, round_events,
                   pages_served, config_budget, max_queries, caller, env, rounds_started, cur,
                   loop_exit, gather_event, result>>

\* ------------------------------------------------------- gather: search
\* PrepareQueries with the branch on the counter lost: every round takes
\* the seed queries.
PrepareQueries_always_initial(current_iter, initial, additional) == initial

\* PrepareQueries with the follow-ups merged into the seed batch.
PrepareQueries_merged(current_iter, initial, additional) ==
    IF current_iter = 0 THEN initial ELSE initial \o additional

\* GatherLoopAgent._prepare_iteration_context 347-354: the batch of the
\* iteration, chosen by the iteration counter.
PrepareQueries(current_iter, initial, additional) ==
    IF current_iter = 0 THEN initial ELSE additional

\* PreparedIteration with the hook counting the round itself.
PreparedIteration_counted_twice(current_iter) == current_iter + 1

\* _prepare_iteration_context 362: the iteration key is written back with
\* the value that was read.
PreparedIteration(current_iter) == current_iter

\* PreparedBudget with the budget counted down by the hook.
PreparedBudget_counted_down(b) == b - 1

\* _prepare_iteration_context 345-362: the hook does not write the budget
\* key (the lines 357-358 that would count it down are comments).
PreparedBudget(b) == b

\* LoopAgent calls _prepare_iteration_context before each iteration, then
\* starts the iteration agent, whose first sub-agent obtains its event
\* service (gather_agent.py 76), reads the batch and starts with an empty
\* result list (78-81).
Loop_prepare ==
    /\ UNCHANGED entry_vars
    /\ UNCHANGED <<db_updates, orch_service>>
    /\ UNCHANGED research_topic
    /\ UNCHANGED user_content
    /\ pc = "prepare"
    /\ current_iteration_queries' =
           PrepareQueries(iteration, initial_queries, additional_queries)
    /\ iteration' = PreparedIteration(iteration)
    /\ budget' = PreparedBudget(budget)
    /\ all_new_results_for_iteration' = <<>>
    /\ qi' = 1
    /\ round_events' = <<>>
    /\ rounds_started' = rounds_started + 1
    /\ cur' = NewRound(PrepareQueries(iteration, initial_queries,
                                      additional_queries),
                       PreparedIteration(iteration))
    /\ \E reachable \in env.connects :
         IF Constructed(reachable)
         THEN /\ pc' = "search"
              /\ gather_service' = session
              /\ UNCHANGED fault
         ELSE /\ pc' = "raised"
              /\ fault' = "event_service"
              /\ UNCHANGED gather_service
    /\ UNCHANGED <<parser_queries, write_failed>>
    /\ UNCHANGED <<max_budget_iterations, initial_queries,
                   additional_queries, needs_more_research,
                   current_eval_text, all_queries, search_results,
                   orch_events, pages_served, config_budget, max_queries, caller, env, loop_exit,
                   gather_event, result>>

\* ScrapedResults with the fetches gathered so that one failure fails all.
\* Gathered with the results taken as the fetches complete.
Gathered_as_completed(k, order) == order

\* tools.py 145-146: asyncio.gather returns the results of its tasks in the
\* order of the tasks, whatever the order in which they complete; the
\* result is the list of the tasks' places.
Gathered(k, order) == [c \in 1..k |-> c]

ScrapedResults_all_or_nothing(first, k, outcome, order) ==
    IF \E c \in 1..k : outcome[c] # "ok" THEN <<>>
    ELSE [i \in 1..k |-> first + i - 1]

\* ScrapedResults with the test of the content left out of the filter.
ScrapedResults_keep_empty(first, k, outcome, order) ==
    LET kept == SelectSeq(Gathered(k, order),
                          LAMBDA c : outcome[c] \in {"ok", "empty_content"})
    IN  [i \in 1..Len(kept) |-> first + kept[i] - 1]

\* tools.py 123-154: every candidate with a link is fetched, all fetches
\* running concurrently; a candidate is kept when its fetch succeeded and
\* its content is not empty, in the order of the gathered results.  The
\* candidates are the pages first..first+k-1; the result is their ids.
ScrapedResults(first, k, outcome, order) ==
    LET kept == SelectSeq(Gathered(k, order), LAMBDA c : outcome[c] = "ok")
    IN  [i \in 1..Len(kept) |-> first + kept[i] - 1]

\* ToolEnds with the provider's failure not caught in the tool.
ToolEnds_uncaught(tool) == IF tool = "results" THEN "list" ELSE "raise"

\* tools.py 87-88 and 95-117: how a call of the tool ends for its caller;
\* the provider's failure is caught and a list returned, a missing key
\* raises.
ToolEnds(tool) == IF tool = "raise" THEN "raise" ELSE "list"

\* tools.py 93-117 and 119-154: a provider failure returns the empty list.
WebSearch(failed, first, k, outcome, order) ==
    IF failed THEN <<>> ELSE ScrapedResults(first, k, outcome, order)

\* gather_agent.py 151: the summary text of a record.
SummaryText(o) == IF o = "no_content" THEN "Summary not available." ELSE o

\* gather_agent.py 156-162: the record appended for a fetched page.
Summarized(links, sums) ==
    [i \in 1..Len(links) |->
        [link |-> links[i], summary |-> SummaryText(sums[i])]]

\* gather_agent.py 104-110: the search_completed event of a query, with
\* the urls of the results the tool returned (in the list field) and their
\* number.
SearchCompleted(q, it, results) ==
    Ev("search_completed", it, q, Len(results), results)

\* The first summarizer call of a query that raises, 0 when none does.
FirstRaise(sums) ==
    LET raising == {i \in DOMAIN sums : sums[i] = "raise"}
    IN  IF raising = {} THEN 0
        ELSE CHOOSE i \in raising : \A j \in raising : i <= j

\* gather_agent.py 84, 104-110, 116-122, 164-170: the events of one query
\* whose search returned links; when the summarizer raises on a result,
\* that result's content_processing is the last event.
QueryEvents(q, it, links, sums) ==
    <<Ev("search_started", it, q, 0, <<>>), SearchCompleted(q, it, links)>>
    \o [j \in 1..(IF FirstRaise(sums) = 0 THEN 2 * Len(links)
                   ELSE 2 * FirstRaise(sums) - 1) |->
          IF j % 2 = 1
          THEN Ev("content_processing", it, q, links[(j + 1) \div 2], <<>>)
          ELSE Ev("content_summarized", it, q, links[j \div 2], <<>>)]

\* History: the pages among links whose summarizer call was made and ended
\* in one of the outcomes.
SummarizedAs(links, sums, outcomes) ==
    {links[i] : i \in {j \in 1..Len(links) :
                         /\ sums[j] \in outcomes
                         /\ FirstRaise(sums) = 0 \/ j <= FirstRaise(sums)}}

\* History: the pages of a search whose fetch ended in one of the outcomes.
Fetched(first, k, outcome, outcomes) ==
    {first + c - 1 : c \in {d \in 1..k : outcome[d] \in outcomes}}

\* tools.py 123-146: one scrape task is made for each candidate of the
\* provider's answer that has a link, and each task calls the fetch once;
\* the pages the fetch is called for, in the order of the tasks.
FetchCalls(first, k, outcome) ==
    LET linked == SelectSeq([c \in 1..k |-> c],
                            LAMBDA c : outcome[c] # "no_link")
    IN  [i \in 1..Len(linked) |-> first + linked[i] - 1]

\* History: the largest number of times one entry is in a list of calls.
MostCalls(calls) ==
    IF calls = <<>> THEN 0
    ELSE LET count(x) == Cardinality({i \in 1..Len(calls) : calls[i] = x})
         IN  CHOOSE n \in 1..Len(calls) :
                 /\ \E x \in Range(calls) : count(x) = n
                 /\ \A x \in Range(calls) : count(x) <= n

\* gather_agent.py 112-148: the summarizer is invoked once for each result
\* of the query in turn, up to and including the first call that raises.
SummarizerCalls(links, sums) ==
    SubSeq(links, 1, IF FirstRaise(sums) = 0 THEN Len(links)
                     ELSE FirstRaise(sums))

\* BatchDone with the loop left after its first pass.
BatchDone_after_first(i, batch) == i > Min(1, Len(batch))

\* gather_agent.py 83: the loop over the batch is over when its last query
\* has been processed; i is the place of the next query.
BatchDone(i, batch) == i > Len(batch)

\* gather_agent.py 83-172, one pass of the loop over the batch: the web
\* search tool is called for the query, every result is summarized, and
\* the query's records are added to the stage's local list.  Neither call
\* is guarded: an exception leaves the stage before the list is extended.
Search_query ==
    /\ UNCHANGED entry_vars
    /\ UNCHANGED <<db_updates, orch_service, gather_service>>
    /\ UNCHANGED research_topic
    /\ pc = "search"
    /\ ~BatchDone(qi, current_iteration_queries)
    /\ LET q == current_iteration_queries[qi]
           first == pages_served + 1 IN
       \E tool \in env.tools, k \in 0..(env.pages - pages_served) :
       \E outcome \in [1..k -> env.fetches],
          order \in IF env.interleaved THEN CompletionOrders(k)
                    ELSE {StartOrder(k)} :
         LET links == WebSearch(tool = "provider_error", first, k, outcome,
                                order) IN
         \E sums \in [1..Len(links) -> env.sums] :
           /\ tool # "results" => k = 0
           /\ pages_served' = pages_served + k
           /\ user_content' = IF ToolEnds(tool) = "list" /\ links # <<>>
                               THEN "summarizer" ELSE user_content
           /\ cur' = [cur EXCEPT
                  !.out_of_order = @ \/ order # StartOrder(k),
                  !.added = IF ToolEnds(tool) = "list" /\ FirstRaise(sums) = 0
                            THEN Append(@, Len(Summarized(links, sums)))
                            ELSE @,
                  !.fetched_ok = @ \cup Fetched(first, k, outcome, {"ok"}),
                  !.fetch_failed = @ \cup Fetched(first, k, outcome,
                                                  {"unsuccessful", "exception"}),
                  !.provider_errors =
                      IF tool = "provider_error" THEN @ \cup {qi} ELSE @,
                  !.sum_failed = @ \cup SummarizedAs(links, sums,
                                                     {"raise", "error_text"}),
                  !.tool_calls = Append(@, q),
                  !.fetch_most =
                      Max(@, MostCalls(FetchCalls(first, k, outcome))),
                  !.summarizer_calls =
                      IF ToolEnds(tool) = "list"
                      THEN @ \o SummarizerCalls(links, sums) ELSE @]
           /\ IF ToolEnds(tool) = "raise"
              THEN /\ round_events' = Append(round_events,
                          Ev("search_started", iteration, q, 0, <<>>))
                   /\ Step(1, "raised", "tool")
                   /\ UNCHANGED <<all_new_results_for_iteration, qi>>
              ELSE /\ round_events' =
                          round_events \o QueryEvents(q, iteration, links, sums)
                   /\ IF FirstRaise(sums) # 0
                      THEN /\ Step(Len(QueryEvents(q, iteration, links, sums)),
                                   "raised", "summarizer")
                           /\ UNCHANGED <<all_new_results_for_iteration, qi>>
                      ELSE /\ Step(Len(QueryEvents(q, iteration, links, sums)),
                                   pc, fault)
                           /\ qi' = qi + 1
                           /\ all_new_results_for_iteration' =
                                  all_new_results_for_iteration
                                  \o Summarized(links, sums)
    /\ UNCHANGED parser_queries
    /\ UNCHANGED <<budget, iteration, max_budget_iterations,
                   initial_queries, current_iteration_queries,
                   additional_queries, needs_more_research,
                   current_eval_text, all_queries, search_results,
                   orch_events, config_budget, max_queries, caller, env, rounds_started, loop_exit,
                   gather_event, result>>

\* ExtendResults with the state key overwritten by the round's records.
ExtendResults_overwrite(current_overall_results, new_results) == new_results

\* gather_agent.py 177-179: the round's records are put after the records
\* already in the state.
ExtendResults(current_overall_results, new_results) ==
    current_overall_results \o new_results

\* DedupList with the extended list stored as it is, without set().
DedupList_extended(old, batch) ==
    old (+) [q \in Range(batch) |->
                Cardinality({i \in 1..Len(batch) : batch[i] = q})]

\* DedupList with the key overwritten by the round's batch.
DedupList_batch_only(old, batch) == SetToBag(Range(batch))

\* gather_agent.py 182-184: list(set(...)) of the old list extended by the
\* batch holds each of their entries once.
DedupList(old, batch) == SetToBag(BagToSet(old) \cup Range(batch))

\* gather_agent.py 174-191: after the last query the stage writes the
\* state once.
Search_merge ==
    /\ UNCHANGED entry_vars
    /\ UNCHANGED <<db_updates, orch_service, gather_service>>
    /\ UNCHANGED research_topic
    /\ UNCHANGED user_content
    /\ pc = "search"
    /\ BatchDone(qi, current_iteration_queries)
    /\ search_results' =
           ExtendResults(search_results, all_new_results_for_iteration)
    /\ all_queries' = DedupList(all_queries, current_iteration_queries)
    /\ cur' = [cur EXCEPT !.searched = TRUE]
    /\ pc' = "judge"
    /\ UNCHANGED <<parser_queries, write_failed, fault>>
    /\ UNCHANGED <<budget, iteration, max_budget_iterations, initial_queries,
                   current_iteration_queries, additional_queries,
                   needs_more_research, current_eval_text, qi,
                   all_new_results_for_iteration, orch_events, round_events,
                   pages_served, config_budget, max_queries, caller, env, rounds_started, loop_exit,
                   gather_event, result>>

\* ----------------------------------------------------- gather: evaluate
\* gather_agent.py 243: the text kept of the judgment call.
EvalText(o) == IF o = "no_content" THEN "" ELSE o

\* ResultsAfterFormatting with the records cut to what the prompt shows.
ResultsAfterFormatting_truncated(records) ==
    [i \in 1..Len(records) |->
        [link |-> records[i].link, summary |-> "truncated"]]

\* gather_agent.py 225-228: the prompt text is built from the records by a
\* comprehension of new strings (summary, or the first 200 characters of
\* the content); the records of the state are what they were.
ResultsAfterFormatting(records) == records

\* gather_agent.py 211-244: the stage obtains its event service,
\* evaluation_started is emitted and the judgment agent is invoked; the
\* call is not guarded, so an exception leaves the stage, the iteration and
\* the loop, up to the orchestrator's handler.
Evaluate_judge ==
    /\ UNCHANGED entry_vars
    /\ UNCHANGED <<db_updates, orch_service>>
    /\ UNCHANGED research_topic
    /\ pc = "judge"
    /\ \E reachable \in env.connects, o \in env.judges :
         IF ~Constructed(reachable)
         THEN /\ pc' = "raised"
              /\ fault' = "event_service"
              /\ UNCHANGED <<round_events, cur, current_eval_text,
                             write_failed, user_content, search_results,
                             gather_service>>
         ELSE /\ user_content' = "evaluation"
              /\ gather_service' = session
              /\ search_results' = ResultsAfterFormatting(search_results)
              /\ round_events' = Append(round_events,
                     Ev("evaluation_started", iteration, "",
                        Len(search_results), <<>>))
              /\ cur' = [cur EXCEPT !.judge = o, !.judge_calls = @ + 1]
              /\ IF o = "raise"
                 THEN /\ Step(1, "raised", "judge")
                      /\ UNCHANGED current_eval_text
                 ELSE /\ Step(1, "parse", fault)
                      /\ current_eval_text' = EvalText(o)
    /\ UNCHANGED <<budget, iteration, max_budget_iterations, initial_queries,
                   current_iteration_queries, additional_queries,
                   needs_more_research, all_queries, qi,
                   all_new_results_for_iteration, orch_events, pages_served,
                   config_budget, max_queries, caller, parser_queries, env,
                   rounds_started, loop_exit, gather_event, result>>

\* gather_agent.py 258: more research is needed when the parser gave a query.
NeedsMore(queries) == Len(queries) > 0

\* gather_agent.py 246-275: the parsing agent is invoked on the text, the
\* flag and the capped follow-up list are stored, evaluation_completed is
\* emitted.  The call is not guarded either.
Evaluate_parse ==
    /\ UNCHANGED entry_vars
    /\ UNCHANGED <<db_updates, orch_service, gather_service>>
    /\ UNCHANGED research_topic
    /\ pc = "parse"
    /\ user_content' = "parser"
    /\ \E o \in env.parsers, parsed \in ParsedOutputs(env.plan) :
         IF o = "raise"
         THEN /\ Step(0, "raised", "parser")
              /\ cur' = [cur EXCEPT !.parser_calls = @ + 1]
              /\ UNCHANGED <<needs_more_research, additional_queries,
                             round_events, parser_queries>>
         ELSE /\ Step(1, "iter_done", fault)
              /\ parser_queries' = QueriesOf(parsed)
              /\ needs_more_research' = NeedsMore(QueriesOf(parsed))
              /\ additional_queries' = CapQueries(QueriesOf(parsed))
              /\ round_events' = Append(round_events,
                     Ev("evaluation_completed", iteration,
                        IF NeedsMore(QueriesOf(parsed))
                        THEN "needs_more" ELSE "sufficient",
                        0, CapQueries(QueriesOf(parsed))))
              /\ cur' = [cur EXCEPT !.evaluated = TRUE,
                                     !.parser_calls = @ + 1]
    /\ UNCHANGED <<budget, iteration, max_budget_iterations, initial_queries,
                   current_iteration_queries, current_eval_text, all_queries,
                   search_results, qi, all_new_results_for_iteration,
                   orch_events, pages_served, config_budget, max_queries, caller, env, rounds_started,
                   loop_exit, gather_event, result>>

\* IterationEvents with the event kept for rounds that have evidence.
IterationEvents_skip_empty(event_type, current_iteration, total_results) ==
    IF event_type # "error" /\ total_results > 0
    THEN <<Ev("iteration_completed", current_iteration, "", total_results,
              <<>>)>>
    ELSE <<>>

\* IterationEvents with the event left out for the first round.
IterationEvents_later_rounds_only(event_type, current_iteration, total_results) ==
    IF event_type # "error" /\ current_iteration > 0
    THEN <<Ev("iteration_completed", current_iteration, "", total_results,
              <<>>)>>
    ELSE <<>>

\* GatherIterationAgent._run_async_impl 309-319: what is emitted after the
\* two sub-agents, given the type of the event they returned.
IterationEvents(event_type, current_iteration, total_results) ==
    IF event_type # "error"
    THEN <<Ev("iteration_completed", current_iteration, "", total_results, <<>>)>>
    ELSE <<>>

\* GatherIterationAgent._run_async_impl 303-321, after both sub-agents
\* returned (gather_agent.py 188, 272: events of the default type): the
\* agent obtains its event service and emits the event.
Iteration_completed ==
    /\ UNCHANGED entry_vars
    /\ UNCHANGED <<db_updates, orch_service>>
    /\ UNCHANGED research_topic
    /\ UNCHANGED user_content
    /\ pc = "iter_done"
    /\ \E reachable \in env.connects :
         IF ~Constructed(reachable)
         THEN /\ pc' = "raised"
              /\ fault' = "event_service"
              /\ UNCHANGED <<round_events, write_failed, gather_service>>
         ELSE /\ gather_service' = session
              /\ round_events' = round_events
                     \o IterationEvents("default", iteration,
                                        Len(search_results))
              /\ Step(Len(IterationEvents("default", iteration,
                                          Len(search_results))),
                      "loop_cond", fault)
    /\ parser_queries' = <<>>
    /\ UNCHANGED <<budget, iteration, max_budget_iterations, initial_queries,
                   current_iteration_queries, additional_queries,
                   needs_more_research, current_eval_text, all_queries,
                   search_results, qi, all_new_results_for_iteration,
                   orch_events, pages_served, config_budget, max_queries,
                   caller, env, rounds_started, cur, loop_exit, gather_event,
                   result>>

\* --------------------------------------------------------- gather: loop
\* LoopBranch with the budget test off by one.
LoopBranch_past_budget(current_iter, max_iterations, needs_more, additional) ==
    IF current_iter > max_iterations THEN "budget"
    ELSE IF ~needs_more THEN "no_more"
    ELSE IF additional = <<>> THEN "no_queries"
    ELSE "continue"

\* GatherLoopAgent._loop_condition_fn 369-387: the branch taken; "continue"
\* is the return of True.
LoopBranch(current_iter, max_iterations, needs_more, additional) ==
    IF current_iter >= max_iterations THEN "budget"
    ELSE IF ~needs_more THEN "no_more"
    ELSE IF additional = <<>> THEN "no_queries"
    ELSE "continue"

\* The round counter after a round: the loop driver counts the round it
\* has run.
NextIteration(current_iter) == current_iter + 1

\* The loop driver (the LoopAgent base class), after an iteration: the
\* round is counted, then _loop_condition_fn decides whether
\* _prepare_iteration_context and the iteration agent run again.
LoopAgent_step ==
    /\ UNCHANGED entry_vars
    /\ UNCHANGED <<db_updates, orch_service, gather_service>>
    /\ UNCHANGED research_topic
    /\ UNCHANGED user_content
    /\ pc = "loop_cond"
    /\ iteration' = NextIteration(iteration)
    /\ LET b == LoopBranch(NextIteration(iteration), max_budget_iterations,
                           needs_more_research, additional_queries) IN
         IF b = "continue"
         THEN pc' = "prepare" /\ UNCHANGED loop_exit
         ELSE pc' = "loop_exit" /\ loop_exit' = b
    /\ UNCHANGED <<parser_queries, write_failed, fault>>
    /\ UNCHANGED <<budget, max_budget_iterations, initial_queries,
                   current_iteration_queries, additional_queries,
                   needs_more_research, current_eval_text, all_queries,
                   search_results, qi, all_new_results_for_iteration,
                   orch_events, round_events, pages_served, config_budget, max_queries, caller, env,
                   rounds_started, cur, gather_event, result>>

\* GatherLoopAgent._run_async_impl 409-416: the loop's Event carries the
\* search results of the state.
Gather_return ==
    /\ UNCHANGED entry_vars
    /\ UNCHANGED <<db_updates, orch_service, gather_service>>
    /\ UNCHANGED research_topic
    /\ UNCHANGED user_content
    /\ pc = "loop_exit"
    /\ gather_event' = [status |-> "complete", final_results |-> search_results]
    /\ pc' = IF caller = "orchestrator" THEN "cover" ELSE "returned"
    /\ UNCHANGED <<parser_queries, write_failed, fault>>
    /\ UNCHANGED <<budget, iteration, max_budget_iterations, initial_queries,
                   current_iteration_queries, additional_queries,
                   needs_more_research, current_eval_text, all_queries,
                   search_results, qi, all_new_results_for_iteration,
                   orch_events, round_events, pages_served, config_budget, max_queries, caller, env,
                   rounds_started, cur, loop_exit, result>>

\* -------------------------------------------------- orchestrator, after
\* main_agent.py 203-236: the events of the cover step.
CoverEvents(o) ==
    IF o \in {"no_prompt", "prompt_raise"} THEN <<>>
    ELSE <<Ev("cover_generation_started", -1, "", 0, <<>>)>>
         \o (IF o = "uploaded"
             THEN <<Ev("cover_generation_completed", -1, "", 0, <<>>)>>
             ELSE IF o = "tool_raise" THEN <<>>
             ELSE IF o = "upload_failed"
             THEN <<Ev("error", -1, "s3_upload", 0, <<>>)>>
             ELSE <<Ev("error", -1, "image_generation", 0, <<>>)>>)

\* main_agent.py 196-236: the cover step; its calls are not guarded either,
\* so one that raises leaves the step for the orchestrator's handler.
Orch_cover ==
    /\ UNCHANGED entry_vars
    /\ UNCHANGED <<db_updates, orch_service, gather_service>>
    /\ UNCHANGED research_topic
    /\ UNCHANGED user_content
    /\ pc = "cover"
    /\ \E o \in env.covers :
         /\ orch_events' = orch_events \o CoverEvents(o)
         /\ IF o \in CoverRaises
            THEN Step(Len(CoverEvents(o)), "raised", "cover")
            ELSE Step(Len(CoverEvents(o)), "report", fault)
    /\ UNCHANGED parser_queries
    /\ UNCHANGED <<budget, iteration, max_budget_iterations, initial_queries,
                   current_iteration_queries, additional_queries,
                   needs_more_research, current_eval_text, all_queries,
                   search_results, qi, all_new_results_for_iteration,
                   round_events, pages_served, config_budget, max_queries, caller, env, rounds_started,
                   cur, loop_exit, gather_event, result>>

\* schemas.py 88-104: the fields an event model cannot be built without.
RequiredFields(type) ==
    CASE type = "report_generating" -> {"partial_report", "timestamp"}
      [] type = "report_generated" -> {"timestamp"}
      [] type = "research_completed" ->
             {"final_result_count", "total_iterations", "timestamp"}
      [] OTHER -> {"timestamp"}

\* A pydantic model is built when every required field is given; a missing
\* one raises a validation error.
Builds(type, given) == RequiredFields(type) \subseteq given

\* main_agent.py 252/286, 288 and 311-315: the keyword arguments the
\* orchestrator builds the three events with.
GivenFields(type) ==
    CASE type = "report_generating" -> {"partialReport", "timestamp"}
      [] type = "report_generated" -> {"report", "timestamp"}
      [] type = "research_completed" ->
             {"finalResultCount", "totalIterations", "timestamp"}
      [] OTHER -> {"timestamp"}

\* ReportTypes with the completion event built before the report's.
ReportTypes_completed_first(long_report) ==
    <<"research_completed", "report_generated">>

\* main_agent.py 239-318: the events of the report step for a report of
\* more than 200 characters or a shorter one, up to the first event that
\* cannot be built, and whether the step got to its end.
ReportTypes(long_report) ==
    IF long_report
    THEN <<"report_generating", "report_generated", "research_completed">>
    ELSE <<"report_generated", "research_completed">>

RECURSIVE BuiltPrefix(_)
BuiltPrefix(types) ==
    IF types = <<>> \/ ~Builds(Head(types), GivenFields(Head(types)))
    THEN <<>>
    ELSE <<Head(types)>> \o BuiltPrefix(Tail(types))

ReportEvents(long_report, it, total) ==
    <<Ev("report_started", -1, "", 0, <<>>)>>
    \o [i \in 1..Len(BuiltPrefix(ReportTypes(long_report))) |->
          LET t == BuiltPrefix(ReportTypes(long_report))[i] IN
          IF t = "research_completed" THEN Ev(t, it, "", total, <<>>)
          ELSE Ev(t, -1, "", 0, <<>>)]

ReportCompletes(long_report) ==
    BuiltPrefix(ReportTypes(long_report)) = ReportTypes(long_report)

Orch_report ==
    /\ UNCHANGED entry_vars
    /\ UNCHANGED <<db_updates, orch_service, gather_service>>
    /\ UNCHANGED research_topic
    /\ UNCHANGED user_content
    /\ pc = "report"
    /\ \E long_report \in env.reports :
         /\ orch_events' = orch_events \o
                ReportEvents(long_report, iteration, Len(search_results))
         /\ IF ReportCompletes(long_report)
            THEN /\ Step(Len(ReportEvents(long_report, iteration,
                                          Len(search_results))),
                         "done", fault)
                 /\ result' = "success"
            ELSE /\ Step(Len(ReportEvents(long_report, iteration,
                                          Len(search_results))),
                         "raised", "report")
                 /\ UNCHANGED result
    /\ UNCHANGED parser_queries
    /\ UNCHANGED <<budget, iteration, max_budget_iterations, initial_queries,
                   current_iteration_queries, additional_queries,
                   needs_more_research, current_eval_text, all_queries,
                   search_results, qi, all_new_results_for_iteration,
                   round_events, pages_served, config_budget, max_queries, caller, env, rounds_started,
                   cur, loop_exit, gather_event>>

\* HandlerEvents with the handler emitting nothing.
HandlerEvents_silent == <<>>

\* main_agent.py 322-326: what the except clause emits.
HandlerEvents == <<Ev("error", -1, "orchestration_error", 0, <<>>)>>

\* main_agent.py 320-330: an exception of any step is caught; an error
\* event is emitted and an error Event returned.
Orch_error ==
    /\ UNCHANGED entry_vars
    /\ UNCHANGED <<db_updates, orch_service, gather_service>>
    /\ UNCHANGED research_topic
    /\ UNCHANGED user_content
    /\ pc = "raised"
    /\ orch_events' = orch_events \o HandlerEvents
    /\ result' = "error"
    /\ pc' = "failed"
    /\ \E eff \in SinkEffects(1) :
         write_failed' = (write_failed \/ eff.failed)
    /\ UNCHANGED <<parser_queries, fault>>
    /\ UNCHANGED <<budget, iteration, max_budget_iterations, initial_queries,
                   current_iteration_queries, additional_queries,
                   needs_more_research, current_eval_text, all_queries,
                   search_results, qi, all_new_results_for_iteration,
                   round_events, pages_served, config_budget, max_queries, caller, env, rounds_started,
                   cur, loop_exit, gather_event>>

Next ==
    \/ Orch_init
    \/ Orch_plan
    \/ Orch_skip_gather
    \/ GatherLoop_start
    \/ Loop_prepare
    \/ Search_query
    \/ Search_merge
    \/ Evaluate_judge
    \/ Evaluate_parse
    \/ Iteration_completed
    \/ LoopAgent_step
    \/ Gather_return
    \/ Orch_cover
    \/ Orch_report
    \/ Orch_error

Spec == Init /\ [][Next]_vars

\* The control thread is never suspended for ever: every await returns or
\* raises, so a step that can be taken is taken.
FairSpec == Spec /\ WF_vars(Next)

\* Runs whose event sink fails.
SinkInit == Start(SinkEnvironments, Budgets, {MaxQueries})
SinkSpec == SinkInit /\ [][Next]_vars

\* Runs started on a corrupted session state: a budget of zero or less.
FatalInit == Start(Environments, FatalBudgets, {MaxQueries})
FatalSpec == FatalInit /\ [][Next]_vars

\* Runs under every query cap, of the orchestrator and of the gather loop
\* run by a caller that prepared the state, in the environment in which
\* the language models end in every way.
DirectEnvironments == {e \in Environments : e.name = "llm"}
DirectInit ==
    \/ Start(DirectEnvironments, Budgets, QueryCaps)
    \/ Direct(DirectEnvironments, Budgets, QueryCaps)
DirectSpec == DirectInit /\ [][Next]_vars

\* Runs in which every call of a step can raise.
StepsInit == Start(StepEnvironments, Budgets, {MaxQueries})
StepsSpec == StepsInit /\ [][Next]_vars

\* Runs started through ResearchInitiatorAgent, for every chatId and every
\* answer of the database, in the environment in which the cover and
\* report steps end in every way.
InitiatorEnvironments == {e \in Environments : e.name = "tail"}
InitiatorInit ==
    /\ pc = "initiate"
    /\ caller = "orchestrator"
    /\ entry = "ResearchInitiatorAgent"
    /\ chatId \in {"", Session, OtherChat}
    /\ session = Session
    /\ session_id = "none"
    /\ db \in DbAnswers
    /\ config_budget \in Budgets
    /\ max_queries = MaxQueries
    /\ env \in InitiatorEnvironments
    /\ research_topic = ""
    /\ budget = 0
    /\ initial_queries = <<>>
    /\ Unwritten
InitiatorNext == Initiator_run \/ Initiator_return \/ Next
InitiatorSpec == InitiatorInit /\ [][InitiatorNext]_vars

\* ================================================================ claims
\* Positions of the events of a type in an event list.
Positions(evs, type) == {i \in 1..Len(evs) : evs[i].type = type}
\* The links of the records of an evidence list.
Links(records) == {records[i].link : i \in 1..Len(records)}
\* The branches of _loop_condition_fn that end the loop: the first is the
\* terminal state BUDGET_EXHAUSTED, the other two are CONVERGED.
TerminalBranches == {"budget", "no_more", "no_queries"}

\* C1 - budget bound: whatever the evaluator answers, the gather loop runs
\* at most as many rounds of the iteration agent as the configured budget.
C1_BudgetBound == rounds_started <= config_budget

\* C1 witness: the loop has run as many rounds as a budget of two or more
\* allows and stopped on the budget although the evaluator asked for more.
C1_Witness ==
    /\ pc = "loop_exit"
    /\ loop_exit = "budget"
    /\ config_budget >= 2
    /\ rounds_started = config_budget
    /\ needs_more_research
    /\ additional_queries # <<>>

\* C2 - dedup: no query that was in all_queries before a round starts is
\* in that round's batch.
C2_NoQuerySearchedAgain ==
    rounds_started > 0 => Range(cur.batch) \cap cur.seen = {}

\* How the judgment call fails: it raises, or the adapter catches the
\* failure and answers with its error text.
JudgeFailures == {"raise", "error_text"}

\* C3 - fail-closed evaluation: when the judgment call of a round fails,
\* the round's outcome is "sufficient" with no follow-up query, and the run
\* ends with the loop having returned the evidence gathered so far.
C3_FailClosed ==
    /\ (cur.judge \in JudgeFailures /\ cur.evaluated) =>
           (~needs_more_research /\ additional_queries = <<>>)
    /\ (cur.judge \in JudgeFailures /\ pc \in {"done", "failed"}) =>
           /\ gather_event.status = "complete"
           /\ gather_event.final_results = search_results

\* C4 - append-only evidence: every step leaves search_results a prefix of
\* its next value, so no record is removed, reordered or replaced.
C4_AppendOnly == [][IsPrefix(search_results, search_results')]_vars

\* C4 witness: the second round has put records after those of the first.
C4_Witness ==
    /\ rounds_started = 2
    /\ cur.searched
    /\ cur.evidence_before # <<>>
    /\ Len(search_results) > Len(cur.evidence_before)

\* C5 - a round whose search and evaluation stages both finished has
\* emitted exactly one iteration_completed, after its evaluation_completed,
\* with the round's index and the evidence count; a round emits none before
\* that; and a round that fetched nothing leaves the evidence as it was.
C5_IterationCompletedOnce ==
    LET completed == Positions(round_events, "iteration_completed")
        evaluated == Positions(round_events, "evaluation_completed") IN
    /\ Cardinality(completed) <= 1
    /\ (cur.searched /\ cur.evaluated /\ pc # "iter_done") =>
           /\ Cardinality(completed) = 1
           /\ \A i \in completed :
                /\ \E j \in evaluated : j < i
                /\ round_events[i].iteration = cur.iteration
                /\ round_events[i].n = Len(search_results)
    /\ ~(cur.searched /\ cur.evaluated) => completed = {}
    /\ (cur.searched /\ cur.fetched_ok = {}) =>
           search_results = cur.evidence_before

\* C5 witness: the terminal round of a run that stopped on the budget added
\* no record and has emitted its iteration_completed.
C5_Witness ==
    /\ pc = "loop_exit"
    /\ loop_exit = "budget"
    /\ cur.evaluated
    /\ search_results = cur.evidence_before
    /\ Positions(round_events, "iteration_completed") # {}

\* C6 - graceful degradation on fetch failure: every page whose fetch
\* succeeded with content is a record of the round's list once its query
\* is done, and a record of the evidence once the search stage has
\* written the state, whatever the other fetches ended in.
C6_FetchFailureTolerated ==
    /\ pc = "search" => cur.fetched_ok \subseteq
                            Links(all_new_results_for_iteration)
    /\ cur.searched => cur.fetched_ok \subseteq Links(search_results)

\* C6 witness: the one query of the first round got three candidates, the
\* fetch of one failed, and the other two are the evidence.
C6_Witness ==
    /\ rounds_started = 1
    /\ Len(cur.batch) = 1
    /\ cur.searched
    /\ pages_served = 3
    /\ Cardinality(cur.fetch_failed) = 1
    /\ Cardinality(cur.fetched_ok) = 2
    /\ Len(search_results) = 2

\* The run of the scenario: budget 2 and the seed queries X, Y.
Scenario == config_budget = 2 /\ initial_queries = <<"X", "Y">>

\* C7 - scenario: with budget 2, seeds X, Y and the follow-up Z asked for
\* after round 1, the loop goes on to a round 2 whose batch is exactly Z,
\* and after round 2 it stops on the budget with the counter at 2,
\* whatever round 2's evaluation stored.
C7_Scenario ==
    [][Scenario =>
         /\ (/\ pc \in {"loop_cond", "prepare"}
             /\ rounds_started = 1
             /\ needs_more_research
             /\ additional_queries = <<"Z">>) =>
                \/ pc = "loop_cond" /\ pc' = "prepare"
                \/ /\ pc = "prepare"
                   /\ rounds_started' = 2
                   /\ current_iteration_queries' = <<"Z">>
         /\ (/\ pc = "loop_cond"
             /\ rounds_started = 2
             /\ cur.batch = <<"Z">>) =>
                /\ pc' = "loop_exit"
                /\ loop_exit' = "budget"
                /\ iteration' = 2
                /\ rounds_started' = 2]_vars

\* C7 witness: round 2 of the scenario ran with the batch Z, its evaluation
\* asked for more, and the loop has stopped on the budget.
C7_Witness ==
    /\ Scenario
    /\ pc = "loop_exit"
    /\ loop_exit = "budget"
    /\ rounds_started = 2
    /\ iteration = 2
    /\ cur.batch = <<"Z">>
    /\ needs_more_research
    /\ additional_queries # <<>>

\* C8 - empty seed: when the gather phase is over with an empty seed set,
\* no round has run and the condition has been reported, by an error event
\* or by an error Event of the loop.
C8_EmptySeedReported ==
    (pc = "cover" /\ initial_queries = <<>>) =>
        /\ rounds_started = 0
        /\ round_events = <<>>
        /\ \/ Positions(orch_events, "error") # {}
           \/ gather_event.status = "error"

\* C9 - round counter: the counter stays within 0..budget, it is 0 until
\* the first round, each round runs with the counter one above that of the
\* round before, and no round runs with the counter at the budget.
C9_RoundCounter ==
    /\ iteration \in 0..budget
    /\ rounds_started = 0 => iteration = 0
    /\ rounds_started > 0 =>
           /\ cur.iteration = rounds_started - 1
           /\ cur.iteration < budget

\* C9 witness: the counter has reached a budget of two or more, one round
\* at a time.
C9_Witness ==
    /\ budget >= 2
    /\ iteration = budget
    /\ rounds_started = budget
    /\ cur.iteration = budget - 1
    /\ pc = "cover"

\* C10 - termination: a run that entered the gather loop and has ended has
\* left the loop in CONVERGED or BUDGET_EXHAUSTED, with the loop's Event
\* returned, however the collaborators' calls ended.
C10_LoopTerminates ==
    (pc \in {"done", "failed"} /\ rounds_started > 0) =>
        /\ loop_exit \in TerminalBranches
        /\ gather_event.status = "complete"

\* C11 - query provenance and replacement: the step that starts a round
\* sets the batch to exactly the capped seed list when it is the first
\* round and to exactly the follow-up list the last evaluation stored when
\* it is a later one; nothing of an older batch is carried over.
C11_BatchProvenance ==
    [][(pc = "prepare" /\ pc' # "prepare") =>
          current_iteration_queries' =
              IF rounds_started = 0 THEN initial_queries
              ELSE additional_queries]_vars

\* C11 witness: the second round runs with two follow-up queries, neither
\* of which is one of the two seed queries.
C11_Witness ==
    /\ rounds_started = 2
    /\ pc = "judge"
    /\ Len(initial_queries) = 2
    /\ Len(cur.batch) = 2
    /\ current_iteration_queries = cur.batch
    /\ Range(cur.batch) \cap Range(initial_queries) = {}

\* C12 - all_queries is a superset of the executed queries: once the search
\* stage of a round has written the state, all_queries holds every query
\* of that round's batch and of all earlier batches, and at no time has it
\* lost a query it held when the round started.
C12_AllQueriesSuperset ==
    /\ cur.searched => cur.issued \subseteq BagToSet(all_queries)
    /\ cur.seen \subseteq BagToSet(all_queries)

\* C12 witness: after the search stage of the second round all_queries
\* holds the three queries of the two batches.
C12_Witness ==
    /\ rounds_started = 2
    /\ cur.searched
    /\ Cardinality(cur.issued) = 3
    /\ cur.seen # {}
    /\ cur.seen # cur.issued
    /\ BagToSet(all_queries) = cur.issued

\* The follow-up queries that are left when those already in the set of
\* issued queries are filtered out.
Filtered(queries, known) == SelectSeq(queries, LAMBDA q : q \notin known)

\* C13 - continuation rule: after a round, another round is run exactly
\* when the round's index plus one is below the budget, the evaluation is
\* not sufficient, and a follow-up query is left after the queries already
\* issued are filtered out.
C13_ContinuationRule ==
    [][pc = "loop_cond" =>
          (pc' = "prepare" <=>
              /\ cur.iteration + 1 < budget
              /\ needs_more_research
              /\ Filtered(additional_queries, BagToSet(all_queries)) # <<>>)]_vars

\* The stored list is the first entries of the returned one, in their
\* order, up to the configured maximum.
FirstOf(stored, returned) ==
    /\ IsPrefix(stored, returned)
    /\ Len(stored) = IF Len(returned) > MaxQueries THEN MaxQueries
                     ELSE Len(returned)

\* C14 - query cap: the seed list and every follow-up list are stored as
\* the first maxQueries entries of what the parser returned, in the order
\* returned, and no round's batch holds more than maxQueries queries.
C14_QueryCap ==
    /\ pc = "gather" => FirstOf(initial_queries, parser_queries)
    /\ pc = "iter_done" => FirstOf(additional_queries, parser_queries)
    /\ Len(current_iteration_queries) <= MaxQueries
    /\ Len(cur.batch) <= MaxQueries

\* C14 witness: the second round ran with a full batch and its evaluation
\* parser returned more queries than the cap lets through.
C14_Witness ==
    /\ pc = "iter_done"
    /\ rounds_started = 2
    /\ Len(cur.batch) = MaxQueries
    /\ Len(parser_queries) > MaxQueries
    /\ Len(additional_queries) = MaxQueries

\* C15 - sufficiency flag: once a round's evaluation has finished, more
\* research is flagged exactly when the stored follow-up list is not
\* empty, in the state and in the evaluation_completed event, under every
\* query cap.
C15_SufficiencyFlag ==
    cur.evaluated =>
        /\ needs_more_research <=> additional_queries # <<>>
        /\ \A i \in Positions(round_events, "evaluation_completed") :
               round_events[i].query = "needs_more"
                   <=> round_events[i].queries # <<>>

\* The events of a type in an event list, in their order.
EventsOf(evs, type) == SelectSeq(evs, LAMBDA e : e.type = type)

\* C16 - search failure isolation: a query whose provider call failed has
\* a search_completed event with zero results and the loop over the batch
\* has gone on past it, the failure has not raised out of the tool, and
\* once the stage has written the state the evidence holds the records of
\* the pages the other queries fetched.
C16_SearchFailureIsolated ==
    /\ \A i \in cur.provider_errors :
          /\ i < qi
          /\ Len(EventsOf(round_events, "search_completed")) >= i
          /\ EventsOf(round_events, "search_completed")[i].n = 0
    /\ (cur.provider_errors # {} /\ pc \in {"judge", "parse", "iter_done"})
           => cur.searched
    /\ (cur.provider_errors # {} /\ cur.searched) =>
           Links(search_results) =
               Links(cur.evidence_before) \cup cur.fetched_ok

\* C16 witness: the provider failed for the first of two queries, the
\* second one's page is in the evidence, and the round is being evaluated.
C16_Witness ==
    /\ pc = "parse"
    /\ cur.searched
    /\ Len(cur.batch) = 2
    /\ cur.provider_errors = {1}
    /\ cur.fetched_ok # {}
    /\ Len(search_results) = Len(cur.evidence_before) + 1

\* The summary of a record that has none (schemas.py 13: Optional[str]).
NoSummary == "null"

\* C17 - summarization failure degrades gracefully: a page whose
\* summarization failed is a record of the round, and after the search
\* stage of the evidence, with no summary, and the failure does not raise
\* out of the stage.
C17_SummaryFailureDegrades ==
    /\ fault # "summarizer"
    /\ \A p \in cur.sum_failed :
          LET records == IF cur.searched THEN search_results
                         ELSE all_new_results_for_iteration
          IN  \E i \in 1..Len(records) :
                  /\ records[i].link = p
                  /\ records[i].summary = NoSummary

\* C18 - sink write failure is swallowed: no add_event call raises to its
\* caller, so a run in which a Redis call of add_event failed is never
\* stopped by it; it stops only where a run without the failure stops.
C18_WriteFailureSwallowed ==
    /\ fault # "add_event"
    /\ (write_failed /\ pc \in {"raised", "failed", "crashed"}) =>
           fault \in {"event_service", "report"}

\* C18 witness: a Redis call of add_event has failed, and the run went
\* through two rounds, gathered a record and left the loop on the budget.
C18_Witness ==
    /\ write_failed
    /\ fault = "none"
    /\ pc = "loop_exit"
    /\ loop_exit = "budget"
    /\ rounds_started = 2
    /\ Len(search_results) = 1

\* C19 - sink independence: an unreachable sink stops neither the run nor
\* a round, whenever an agent obtains its event service; a run with an
\* unreachable sink therefore takes the steps of the run with a reachable
\* one and ends with its evidence and round count.
C19_SinkIndependence ==
    /\ pc # "crashed"
    /\ fault # "event_service"

\* C20 - fatal configuration: a run whose budget is zero or less is
\* aborted: it runs no round, its loop neither stops on a budget or
\* convergence branch nor returns the Event of a finished gathering, and
\* the run does not end as a completed one.
C20_FatalBudgetAborts ==
    config_budget <= 0 =>
        /\ rounds_started = 0
        /\ loop_exit = "none"
        /\ gather_event.status # "complete"
        /\ pc # "done"

\* The calls of the gather loop whose failure is not fatal.
GatherCalls == {"tool", "summarizer", "judge", "parser"}

\* C21 - non-fatal errors are surfaced and survived: no failure of a search,
\* a fetch, a summarization, a judgment or a parse ends the run, and once a
\* round's search stage is over, a provider call, a fetch or a
\* summarization that failed in it has an error event of that round on
\* the stream, with the step it failed in.
C21_ErrorsSurfaced ==
    /\ fault \notin GatherCalls
    /\ (/\ cur.searched
        /\ \/ cur.provider_errors # {}
           \/ cur.fetch_failed # {}
           \/ cur.sum_failed # {}) =>
           \E i \in Positions(round_events, "error") :
               /\ round_events[i].iteration = cur.iteration
               /\ round_events[i].query # ""

\* C22 - event pairing: the events of a round hold, for each query of the
\* batch that has been taken up, one search_started directly followed by
\* one search_completed for the same query (with zero results too), and
\* for each page fetched with content one content_processing directly
\* followed by one content_summarized for the same url and query, after
\* the search_completed of its query that carries the url.
C22_EventPairing ==
    LET started == Positions(round_events, "search_started")
        completed == Positions(round_events, "search_completed")
        processing == Positions(round_events, "content_processing")
        summarized == Positions(round_events, "content_summarized") IN
    /\ Cardinality(started) = Cardinality(completed)
    /\ Cardinality(processing) = Cardinality(summarized)
    /\ \A i \in 1..Len(EventsOf(round_events, "search_started")) :
          /\ i <= Len(cur.batch)
          /\ EventsOf(round_events, "search_started")[i].query = cur.batch[i]
    /\ cur.searched => Cardinality(started) = Len(cur.batch)
    /\ \A p \in started :
          /\ p < Len(round_events)
          /\ round_events[p + 1].type = "search_completed"
          /\ round_events[p + 1].query = round_events[p].query
    /\ \A p \in processing :
          /\ p < Len(round_events)
          /\ round_events[p + 1].type = "content_summarized"
          /\ round_events[p + 1].n = round_events[p].n
          /\ round_events[p + 1].query = round_events[p].query
          /\ \E c \in completed :
                /\ c < p
                /\ round_events[c].query = round_events[p].query
                /\ round_events[p].n \in Range(round_events[c].queries)
    /\ Cardinality(processing) = Cardinality(cur.fetched_ok)
    /\ cur.fetched_ok = {round_events[p].n : p \in processing}

\* The events of the search stage.
SearchStageEvents ==
    {"search_started", "search_completed", "content_processing",
     "content_summarized"}

\* C23 - round-level join: when the evaluation of a round has started (its
\* evaluation_started is emitted or its judgment invoked), every query of
\* the round's batch has settled, the round's records have been merged
\* into the evidence, every event of the search stage is before
\* evaluation_started, and the evidence the judgment sees is the evidence
\* before the round followed by all records of the round.
C23_RoundJoin ==
    LET evaluating == Positions(round_events, "evaluation_started") IN
    /\ pc \in {"judge", "parse", "iter_done", "loop_cond"} => cur.searched
    /\ (evaluating # {} \/ cur.judge # "none") =>
          /\ cur.searched
          /\ qi = Len(cur.batch) + 1
          /\ Len(cur.added) = Len(cur.batch)
          /\ Cardinality(Positions(round_events, "search_completed"))
                 = Len(cur.batch)
          /\ search_results =
                 cur.evidence_before \o all_new_results_for_iteration
          /\ cur.fetched_ok \subseteq Links(search_results)
          /\ \A e \in evaluating :
                /\ round_events[e].n = Len(search_results)
                /\ \A p \in 1..Len(round_events) :
                      round_events[p].type \in SearchStageEvents => p < e

\* C23 witness: the judgment of a round of two queries has been invoked
\* after both queries added a record to the evidence.
C23_Witness ==
    /\ pc = "parse"
    /\ cur.judge = "text"
    /\ Len(cur.batch) = 2
    /\ cur.added = <<1, 1>>
    /\ Len(search_results) = 2
    /\ Positions(round_events, "evaluation_started") # {}

\* C24 - only fetched content becomes evidence: every record a step adds
\* to the search stage's list or to the evidence is a page of the current
\* round whose fetch succeeded with content that is not empty; as the
\* evidence starts empty, no candidate whose fetch failed, was
\* unsuccessful or gave no content is ever in it.
C24_OnlyFetchedContent ==
    [][/\ Links(all_new_results_for_iteration')
              \ Links(all_new_results_for_iteration) \subseteq cur'.fetched_ok
       /\ Links(search_results') \ Links(search_results)
              \subseteq cur.fetched_ok
       /\ Links(search_results') \cap cur'.fetch_failed = {}]_vars

\* C24 witness: of the three candidates of a query one was fetched with
\* content, the fetch of one failed and one had no content or no link; the
\* evidence holds the first one only.
C24_Witness ==
    /\ cur.searched
    /\ rounds_started = 1
    /\ pages_served = 3
    /\ Cardinality(cur.fetched_ok) = 1
    /\ Cardinality(cur.fetch_failed) = 1
    /\ Links(search_results) = cur.fetched_ok

\* C25 - at least one round: with a seed set that is not empty and a budget
\* of one or more, the loop condition is not asked, the loop is not left
\* and its Event is not returned before a round has run whose batch is the
\* seed set and whose search and evaluation stages have finished; until
\* that round no evaluation result is in the state.
C25_FirstRoundRuns ==
    (initial_queries # <<>> /\ budget >= 1) =>
        /\ (\/ pc \in {"loop_cond", "loop_exit"}
            \/ loop_exit # "none"
            \/ gather_event.status = "complete") =>
               /\ rounds_started >= 1
               /\ cur.searched
               /\ cur.evaluated
               /\ Range(initial_queries) \subseteq BagToSet(all_queries)
        /\ rounds_started = 1 => cur.batch = initial_queries
        /\ rounds_started = 0 =>
               /\ ~needs_more_research
               /\ additional_queries = <<>>

\* C25 witness: under a budget of two the loop ran the round of the seed
\* queries, whose evaluation asked for nothing more, and was left then.
C25_Witness ==
    /\ pc = "loop_exit"
    /\ budget = 2
    /\ rounds_started = 1
    /\ loop_exit = "no_more"
    /\ Len(initial_queries) = 2
    /\ cur.batch = initial_queries
    /\ cur.evaluated

\* The positions of the control thread inside GatherLoopAgent: loop start,
\* round preparation, search stage, evaluation stage, end of the round,
\* loop condition, return.
GatherSteps ==
    {"gather", "prepare", "search", "judge", "parse", "iter_done",
     "loop_cond", "loop_exit"}

\* C26 - frame of the gather loop: no step of the loop changes the topic
\* or the budget of the session, and once the loop has started no step
\* changes max_budget_iterations, so every loop-condition check reads the
\* value set at loop start.
C26_GatherFrame ==
    [][(pc \in GatherSteps) =>
          /\ research_topic' = research_topic
          /\ budget' = budget
          /\ (pc # "gather" =>
                 max_budget_iterations' = max_budget_iterations)]_vars

\* C26 witness: after two rounds the loop is left with the topic and the
\* budget the run was started with and max_budget_iterations as set at
\* loop start.
C26_Witness ==
    /\ pc = "loop_exit"
    /\ rounds_started = 2
    /\ research_topic = InitialTopic
    /\ budget = config_budget
    /\ max_budget_iterations = config_budget
    /\ Len(search_results) > 0

\* C27 - frame of the evaluation stage: neither step of the stage changes
\* the evidence or all_queries (building the prompt from cut records
\* leaves the records of the state whole), nor any other key of the state
\* than the evaluation outputs needs_more_research, additional_queries,
\* current_eval_text and user_content.
C27_EvaluationFrame ==
    [][(pc \in {"judge", "parse"}) =>
          /\ search_results' = search_results
          /\ all_queries' = all_queries
          /\ UNCHANGED <<research_topic, budget, iteration,
                         max_budget_iterations, initial_queries,
                         current_iteration_queries>>]_vars

\* C27 witness: the evaluation of a round has finished and written its
\* outputs; the evidence holds the records of the search stage with their
\* summaries, and all_queries the batch.
C27_Witness ==
    /\ pc = "iter_done"
    /\ cur.evaluated
    /\ user_content = "parser"
    /\ needs_more_research
    /\ Len(search_results) >= 2
    /\ search_results = cur.evidence_before \o all_new_results_for_iteration
    /\ \A i \in 1..Len(search_results) : search_results[i].summary = "summary"
    /\ BagToSet(all_queries) = cur.issued

\* The keys of the session state the gather agents use, but for the two
\* the search stage merges into.
OtherStateKeys ==
    <<research_topic, user_content, budget, iteration, max_budget_iterations,
      initial_queries, current_iteration_queries, additional_queries,
      needs_more_research, current_eval_text>>

\* C28 - single merge point: a step of the search stage that processes a
\* query (search, fetches, summarizations) writes no key of the session
\* state, and the evidence and all_queries change only in the one step of
\* a round that follows the last query of its batch.
C28_SingleMergePoint ==
    [][/\ (pc = "search" /\ ~BatchDone(qi, current_iteration_queries)) =>
              /\ UNCHANGED <<search_results, all_queries>>
              /\ UNCHANGED OtherStateKeys
       /\ (search_results' # search_results \/ all_queries' # all_queries) =>
              /\ pc = "search"
              /\ BatchDone(qi, current_iteration_queries)
              /\ ~cur.searched
              /\ cur'.searched]_vars

\* The records of a list are in the order in which the provider returned
\* their pages: page ids count up with the place of the query in the batch
\* and, within a query, with the place of the candidate in the search
\* result.
InProviderOrder(records) ==
    \A i, j \in 1..Len(records) :
        i < j => records[i].link < records[j].link

\* C29 - deterministic evidence order: the records of the search stage's
\* list and of the evidence are in the order of their queries in the batch
\* and, within a query, of the candidates the search returned, in whatever
\* order the concurrent fetches of a query complete.
C29_EvidenceOrder ==
    /\ InProviderOrder(all_new_results_for_iteration)
    /\ InProviderOrder(search_results)

\* C29 witness: the two fetches of one query of a batch of two completed
\* in the reverse of the order they were started in, both with content,
\* and the evidence holds the two records in the candidates' order.
C29_Witness ==
    /\ cur.searched
    /\ cur.out_of_order
    /\ Len(cur.batch) = 2
    /\ cur.added = <<0, 2>>
    /\ Len(search_results) = 2
    /\ search_results[1].link < search_results[2].link

RECURSIVE SumOf(_)
SumOf(numbers) ==
    IF numbers = <<>> THEN 0 ELSE Head(numbers) + SumOf(Tail(numbers))

\* C30 - event payload consistency: the total_results of a round's
\* evaluation_started and iteration_completed are the length of the
\* evidence after the round's search stage; every search_completed of the
\* round carries as many urls as its result_count says, and that is the
\* number of records its query adds to the evidence.
C30_PayloadConsistency ==
    LET completed == EventsOf(round_events, "search_completed") IN
    /\ \A e \in Positions(round_events, "evaluation_started")
                 \cup Positions(round_events, "iteration_completed") :
          /\ cur.searched
          /\ round_events[e].n = Len(search_results)
    /\ \A i \in 1..Len(completed) :
          /\ completed[i].n = Len(completed[i].queries)
          /\ i <= Len(cur.added)
          /\ completed[i].n = cur.added[i]
    /\ cur.searched =>
          Len(search_results) = Len(cur.evidence_before) + SumOf(cur.added)

\* A sequence that holds no entry twice.
NoRepeat(s) == \A i, j \in 1..Len(s) : s[i] = s[j] => i = j

\* The positions at which the last started round is over, finished or
\* stopped by a call that raised.
RoundOver ==
    pc \in {"loop_cond", "loop_exit", "cover", "report", "done", "returned",
            "raised", "failed"}

\* C31 - single-attempt policy: in a round no call is made twice (the web
\* search tool is called for the queries of the batch in turn, a page is
\* fetched once and summarized once, the judgment agent and the parsing
\* agent are invoked once at most), and when the round is over each call
\* has been made exactly once: the tool for each query of the batch, the
\* summarizer for each page fetched with content, whether calls failed or
\* not, the judgment and the extraction once each.
C31_SingleAttempt ==
    /\ IsPrefix(cur.tool_calls, cur.batch)
    /\ cur.fetch_most <= 1
    /\ NoRepeat(cur.summarizer_calls)
    /\ Range(cur.summarizer_calls) \subseteq cur.fetched_ok
    /\ cur.judge_calls <= 1
    /\ cur.parser_calls <= 1
    /\ (rounds_started > 0 /\ RoundOver) =>
          /\ cur.tool_calls = cur.batch
          /\ Range(cur.summarizer_calls) = cur.fetched_ok
          /\ cur.judge_calls = 1
          /\ cur.parser_calls = 1

\* The events of a round in the order of its stages.
StageOf(type) ==
    CASE type \in SearchStageEvents -> 1
      [] type = "evaluation_started" -> 2
      [] type = "evaluation_completed" -> 3
      [] type = "iteration_completed" -> 4
      [] OTHER -> 0

\* The events and the calls of the current round are in the order of the
\* stages: search stage, evaluation_started and judgment, extraction and
\* evaluation_completed, iteration_completed.
RoundInOrder ==
    /\ \A i \in 1..Len(round_events) :
          /\ StageOf(round_events[i].type) > 0
          /\ round_events[i].iteration = cur.iteration
          /\ i < Len(round_events) =>
                IF StageOf(round_events[i].type) = 1
                THEN StageOf(round_events[i + 1].type) \in {1, 2}
                ELSE StageOf(round_events[i + 1].type)
                         = StageOf(round_events[i].type) + 1
    /\ cur.judge_calls = Cardinality(Positions(round_events,
                                               "evaluation_started"))
    /\ cur.judge_calls > 0 => cur.searched
    /\ cur.parser_calls > 0 => cur.judge_calls = 1 /\ cur.judge # "raise"
    /\ Positions(round_events, "evaluation_completed") # {} =>
           cur.parser_calls = 1
    /\ Positions(round_events, "iteration_completed") # {} => cur.evaluated
    /\ cur.searched => /\ cur.tool_calls = cur.batch
                       /\ Range(cur.summarizer_calls) = cur.fetched_ok

\* Where the loop driver stands when it is about to start a round after
\* the first: the round before has emitted its iteration_completed as its
\* last event, after its evaluation, and has been counted.
RoundClosed ==
    (pc = "prepare" /\ rounds_started > 0) =>
        /\ cur.evaluated
        /\ round_events # <<>>
        /\ round_events[Len(round_events)].type = "iteration_completed"
        /\ iteration = cur.iteration + 1

\* C32 - rounds are strictly serial: within a round the order is search
\* stage, evaluation_started, judgment, extraction, evaluation_completed,
\* iteration_completed; every event of a round carries the round's number,
\* the calls of the search stage are a prefix of the batch's until the
\* stage is over, and no round starts before the iteration_completed of
\* the round before it.
C32_RoundsSerial ==
    /\ RoundInOrder
    /\ RoundClosed
    /\ IsPrefix(cur.tool_calls, cur.batch)
    /\ rounds_started > 0 => cur.iteration = rounds_started - 1

\* C32 witness: the second round is complete, with a search, a judgment and
\* an extraction, after a first round that was.
C32_Witness ==
    /\ rounds_started = 2
    /\ pc = "loop_cond"
    /\ cur.tool_calls # <<>>
    /\ cur.summarizer_calls # <<>>
    /\ cur.judge_calls = 1
    /\ cur.parser_calls = 1
    /\ round_events[Len(round_events)].type = "iteration_completed"

\* C33 - all_queries holds no duplicate: after the search stage of every
\* round each query is in all_queries once, also when the batch of the
\* round holds a query twice or holds a query of an earlier round.
C33_AllQueriesDistinct ==
    \A q \in BagToSet(all_queries) : CopiesIn(q, all_queries) = 1

\* C33 witness: the search stage of the second round has written the
\* state; the round's batch held one query twice, which was a query of the
\* first round too.
C33_Witness ==
    /\ rounds_started = 2
    /\ cur.searched
    /\ Len(cur.batch) = 2
    /\ cur.batch[1] = cur.batch[2]
    /\ cur.batch[1] \in cur.seen
    /\ BagToSet(all_queries) = cur.seen

\* C34 - one stream per research run: the stream key of the event service
\* the orchestrator emits its events on is the key of the event service the
\* gather agents emit theirs on, also when the run is started by the
\* initiator with a chatId that is not the id of the invoking session.
C34_OneStream ==
    (orch_service # "none" /\ gather_service # "none") =>
        GenerateKey(orch_service) = GenerateKey(gather_service)

\* The error events of the cover step.
CoverErrors ==
    {i \in Positions(orch_events, "error") :
        orch_events[i].query \in {"s3_upload", "image_generation"}}

\* C35 - the success path: a run whose planning, gather loop, cover
\* generation and report generation all succeeded ends with status
\* "success", and its last event is research_completed with the number of
\* evidence records and the number of rounds of the final state.
C35_SuccessCompletes ==
    (/\ pc \in {"done", "failed"}
     /\ fault \in {"none", "report"}
     /\ CoverErrors = {}) =>
        /\ result = "success"
        /\ orch_events # <<>>
        /\ orch_events[Len(orch_events)].type = "research_completed"
        /\ orch_events[Len(orch_events)].n = Len(search_results)
        /\ orch_events[Len(orch_events)].iteration = iteration

\* The steps of the orchestrator's run in which a call can raise.
OrchestratorSteps ==
    {"planner", "tool", "summarizer", "judge", "parser", "cover", "report"}

\* C36 - exceptions of the run are caught: when a step of the
\* orchestrator's run has raised, the orchestrator's handler runs; it emits
\* one error event, with step "orchestration_error", which is the last
\* event of the run (no report_generated or research_completed follows),
\* and the orchestrator returns an Event of status "error".
C36_ExceptionsCaught ==
    /\ fault \in OrchestratorSteps => pc \in {"raised", "failed"}
    /\ pc = "raised" => ENABLED Orch_error
    /\ pc = "failed" =>
          /\ result = "error"
          /\ orch_events[Len(orch_events)] =
                 Ev("error", -1, "orchestration_error", 0, <<>>)
          /\ Cardinality({i \in Positions(orch_events, "error") :
                 orch_events[i].query = "orchestration_error"}) = 1
          /\ ~ENABLED Next

\* C36 witness: the image tool raised after two rounds of the gather loop,
\* and the handler has returned.
C36_Witness ==
    /\ pc = "failed"
    /\ fault = "cover"
    /\ rounds_started = 2
    /\ result = "error"
    /\ orch_events[Len(orch_events) - 1].type = "cover_generation_started"

\* The first position of a type in a list of event types, 0 when it has none.
FirstPlace(types, type) ==
    LET places == {i \in 1..Len(types) : types[i] = type}
    IN  IF places = {} THEN 0
        ELSE CHOOSE i \in places : \A j \in places : i <= j

\* The types of the orchestrator's events, in order.
OrchTypes == [i \in 1..Len(orch_events) |-> orch_events[i].type]

\* C37 - phase order of the orchestrator: planning_started is the first
\* event and planning_completed the second, and every gather-stage event
\* comes after both; report_started is emitted only when the gather loop
\* has returned, after the last iteration_completed, and the evidence is
\* then and later what the loop returned; report_generated comes after
\* report_started and before research_completed.
C37_PhaseOrder ==
    /\ orch_events # <<>> => orch_events[1].type = "planning_started"
    /\ Positions(orch_events, "planning_started") \subseteq {1}
    /\ Positions(orch_events, "planning_completed") \subseteq {2}
    /\ (rounds_started > 0 \/ round_events # <<>>) =>
           Positions(orch_events, "planning_completed") = {2}
    /\ Len(orch_events) > 2 =>
           \/ rounds_started = 0 /\ initial_queries = <<>>
           \/ gather_event.status = "complete"
           \/ fault \in GatherCalls
    /\ Positions(orch_events, "report_started") # {} =>
           /\ FirstPlace(OrchTypes, "report_started") > 2
           /\ \A t \in {"report_generating", "report_generated",
                        "research_completed"} :
                 \A i \in Positions(orch_events, t) :
                     i > FirstPlace(OrchTypes, "report_started")
           /\ rounds_started > 0 =>
                 /\ gather_event.status = "complete"
                 /\ cur.evaluated
                 /\ round_events[Len(round_events)].type
                        = "iteration_completed"
                 /\ search_results = gather_event.final_results
    /\ \A long_report \in BOOLEAN :
           /\ FirstPlace(ReportTypes(long_report), "report_generated") > 0
           /\ FirstPlace(ReportTypes(long_report), "report_generated")
                  < FirstPlace(ReportTypes(long_report), "research_completed")

\* C37 witness: after planning and two rounds of the gather loop, which
\* returned evidence, the report was started and generated.
C37_Witness ==
    /\ rounds_started = 2
    /\ gather_event.status = "complete"
    /\ Len(gather_event.final_results) > 0
    /\ Positions(orch_events, "report_generated") # {}
    /\ Positions(orch_events, "report_started") # {}
    /\ pc = "failed"

\* The initiator's four conditions: chatId is present, the research record
\* is found with a clerkUserId, the limit check passes, and the topic built
\* of the record has a character that is no blank.
MayInitiate ==
    /\ chatId # ""
    /\ db.research_data = "found"
    /\ db.limit_ok
    /\ db.answered \/ db.message \notin {"", " "}

\* C38 - the initiator's guards: the orchestrator is constructed and run
\* only when the four conditions hold; when one fails the initiator
\* returns an error Event, no orchestrator is constructed or run, and no
\* start update of the database is made.
C38_InitiatorGuards ==
    /\ (\/ session_id # "none"
        \/ pc \notin {"initiate", "rejected"}
        \/ db_updates # <<>>) => MayInitiate
    /\ ~MayInitiate =>
          /\ pc \in {"initiate", "rejected"}
          /\ pc = "rejected" => initiator_event = "error"
          /\ session_id = "none"
          /\ orch_service = "none"
          /\ orch_events = <<>>
          /\ rounds_started = 0
          /\ db_updates = <<>>
    /\ MayInitiate => pc # "rejected"

\* C38 witness: the initiator has returned its error Event for a chat
\* whose record was found and whose topic is not empty, because the limit
\* check failed.
C38_Witness ==
    /\ pc = "rejected"
    /\ initiator_event = "error"
    /\ chatId = OtherChat
    /\ db.research_data = "found"
    /\ db.message = InitialTopic
    /\ ~db.limit_ok
    /\ db_updates = <<>>
====
